---- MODULE Spec2Model ----
(***************************************************************************)
(* Model of the Bonsai tree store (src/src/bonsai/tree.ts) together with   *)
(* the middleware factories it is used with (src/unnamed/part_003).        *)
(*                                                                         *)
(* A path string is a sequence of one-character strings, so that the raw   *)
(* string operations of the code (split, startsWith) are computed on       *)
(* characters.  A key of the tree is a path segment, again a sequence of   *)
(* characters.  A value is a function from relative key paths to nodes:    *)
(* the entry at <<>> is the node itself, the entry at <<k>> its property   *)
(* k, and so on.  A property that is present and holds undefined is an     *)
(* entry of kind "undef"; an absent property has no entry.                 *)
(***************************************************************************)
EXTENDS Integers, Sequences, FiniteSets, TLC

\* ------------------------------------------------------------------ bounds
MaxCalls == 2
MaxSubs == 2
MaxInits == 1
MaxTicks == 2
MaxStages == 2
MaxStores == 2
MaxDepth == 2

\* ------------------------------------------------------------------ values
Node(k, v) == [k |-> k, v |-> v]
Leaf(k, v) == (<<>> :> Node(k, v))
Undef == Leaf("undef", 0)
NullV == Leaf("null", 0)
FalseV == Leaf("bool", 0)
Num(n) == Leaf("num", n)
\* a string of n characters
Str(n) == Leaf("str", n)
EmptyObj == Leaf("map", 0)
KeyA == <<"a">>
KeyB == <<"b">>
LengthKey == <<"l", "e", "n", "g", "t", "h">>
\* the property name that the absent last element of an empty parts array
\* is converted to
UndefinedKey == <<"undefined">>
\* the object {b: 2}
ObjB == (<<>> :> Node("map", 0)) @@ (<<KeyB>> :> Node("num", 2))

Kind(val) == val[<<>>].k
IsObject(val) == Kind(val) = "map"

\* ----------------------------------------------------------- path strings
PEmpty == <<>>
PSlash == <<"/">>
PA == <<"a">>
PAA == <<"a", "a">>
PAB == <<"a", "/", "b">>
PSlashA == <<"/", "a">>
PALength == <<"a", "/", "l", "e", "n", "g", "t", "h">>

IsPrefixSeq(p, s) == Len(p) <= Len(s) /\ SubSeq(s, 1, Len(p)) = p
\* String.prototype.startsWith on raw characters
StartsWith(s, p) == IsPrefixSeq(p, s)
Drop(s, n) == SubSeq(s, n + 1, Len(s))

RECURSIVE SplitAcc(_, _, _)
SplitAcc(s, cur, acc) ==
  IF s = <<>> THEN Append(acc, cur)
  ELSE IF Head(s) = "/" THEN SplitAcc(Tail(s), <<>>, Append(acc, cur))
  ELSE SplitAcc(Tail(s), Append(cur, Head(s)), acc)
\* path.split("/")
SplitSlash(s) == SplitAcc(s, <<>>, <<>>)
\* .filter(Boolean): the empty string is the only falsy segment
FilterBoolean(parts) == SelectSeq(parts, LAMBDA x : x # <<>>)
Parts(path) == FilterBoolean(SplitSlash(path))

\* ------------------------------------------------------------ tree access
\* the value held at key path p of val (p in DOMAIN val)
Subtree(val, p) ==
  [q \in {Drop(r, Len(p)) : r \in {x \in DOMAIN val : IsPrefixSeq(p, x)}}
     |-> val[p \o q]]
\* current[part]: a property read on a mapping, or on a primitive, which
\* has no property of its own except the length of a string
Prop(val, key) ==
  IF IsObject(val) /\ <<key>> \in DOMAIN val THEN Subtree(val, <<key>>)
  ELSE IF Kind(val) = "str" /\ key = LengthKey THEN Num(val[<<>>].v)
  ELSE Undef

RECURSIVE Walk(_, _)
Walk(current, parts) ==
  IF parts = <<>> THEN current
  ELSE IF Kind(current) \in {"undef", "null"} THEN Undef
  ELSE Walk(Prop(current, Head(parts)), Tail(parts))

\* get(path)
Get(root, path) == IF path = <<>> THEN root ELSE Walk(root, Parts(path))

\* root with the value at key path p (and all below it) replaced by val
Graft(root, p, val) ==
  [q \in ({r \in DOMAIN root : ~IsPrefixSeq(p, r)} \cup {p \o s : s \in DOMAIN val})
     |-> IF IsPrefixSeq(p, q) THEN val[Drop(q, Len(p))] ELSE root[q]]

\* The update loop of set: result [tree, fault].  pre is the key path of the
\* node `current`; fault is TRUE when the `in` test or the assignment throws
\* a TypeError because current is not an object.
RECURSIVE UpdateFrom(_, _, _, _)
UpdateFrom(root, pre, parts, val) ==
  IF Kind(Subtree(root, pre)) # "map" THEN [tree |-> root, fault |-> TRUE]
  ELSE IF Len(parts) = 1
    THEN [tree |-> Graft(root, pre \o parts, val), fault |-> FALSE]
  ELSE LET part == Head(parts)
           created == IF (pre \o <<part>>) \in DOMAIN root THEN root
                      ELSE Graft(root, pre \o <<part>>, EmptyObj)
       IN UpdateFrom(created, pre \o <<part>>, Tail(parts), val)

\* the "Update state" block of set
Update(root, path, val) ==
  IF path = <<>> THEN [tree |-> val, fault |-> FALSE]
  ELSE LET parts == Parts(path)
       IN UpdateFrom(root, <<>>, IF parts = <<>> THEN <<UndefinedKey>> ELSE parts, val)


\* ------------------------------------------------------------ input sets
AgeLimit == 120
\* the arguments of the set calls
SetInputs ==
  { [path |-> PEmpty, value |-> NullV],
    [path |-> PSlash, value |-> ObjB],
    [path |-> PA, value |-> NullV],
    [path |-> PA, value |-> ObjB],
    [path |-> PAA, value |-> Num(1)],
    [path |-> PAB, value |-> Num(1)],
    [path |-> PAB, value |-> Num(121)],
    [path |-> PSlashA, value |-> Num(1)] }
SetPaths == {in.path : in \in SetInputs}
\* the arguments of the subscribe calls; throws: the callback throws
SubInputs ==
  { [path |-> PA, throws |-> FALSE],
    [path |-> PAB, throws |-> FALSE],
    [path |-> PEmpty, throws |-> FALSE],
    [path |-> PA, throws |-> TRUE] }
\* the middleware lists given to initTreeState; a stage is named by the
\* factory that made it ("rawApi" is the documented API handler installed
\* without the createAsyncMiddleware wrapper)
Pipelines ==
  { <<"validate", "log", "persist">>,
    <<"debounce", "api", "persist">>,
    <<"rawApi", "validate", "persist">> }
\* the subscriptions of a started application
SubConfigs ==
  { << [id |-> 1, path |-> PA, throws |-> FALSE, live |-> TRUE],
       [id |-> 2, path |-> PAB, throws |-> FALSE, live |-> TRUE] >>,
    << [id |-> 1, path |-> PEmpty, throws |-> FALSE, live |-> TRUE],
       [id |-> 2, path |-> PA, throws |-> TRUE, live |-> TRUE] >> }
\* Undef stands for an omitted initialState
InitialStates == {Undef, ObjB}
CallIds == 1 .. MaxCalls

\* ------------------------------------------------------------ variables
VARIABLES
  state,        \* the root of the tree
  arrays,       \* the middleware arrays ever created, by reference
  middleware,   \* the array the module variable refers to
  subscribers,  \* the handlers ever added, in insertion order; live: still in the set
  calls,        \* the set calls: their locals and what they did
  microtasks,   \* continuations ready to run, first in first out
  timeouts,     \* debounce stage: path string -> the call its timer resolves
  sink,         \* what the persistence stage wrote last
  sinkFails,    \* localStorage.setItem throws (the quota is exceeded)
  now,          \* Date.now(), in milliseconds
  lastUpdates,  \* throttle stage: path string -> time of the last accepted call
  probe,        \* the last get call made on its own: its path, the tree, its result
  removed,      \* the last removeMiddleware call: its argument and the list before it
  flat,         \* the flat store (flat.ts): its state, listeners and middlewares
  stores,       \* the stores made by createBonsaiStore, in order of creation
  walk,         \* the last getAllPaths call: its argument and its result
  timeout,      \* debounce stage of middleware.ts: the call its one timer resolves
  lastUpdate,   \* throttle stage of middleware.ts: time of the last accepted call
  heap          \* the objects of the tree by reference, and the reference a get returned

vars == <<state, arrays, middleware, subscribers, calls, microtasks, timeouts, sink,
          sinkFails, now, lastUpdates, probe, removed, flat, stores, walk,
          timeout, lastUpdate, heap>>

\* --------------------------------------------------------------- stages
\* The validator of the documented "Complex Validation", with "user/age"
\* read as a/b and "user/name" as a: "ok", "message" (a string result), or
\* "throws" (nextValue.trim is applied to a value that is not a string).
Validator(path, nextValue, prevValue) ==
  IF path = PAB /\ Kind(nextValue) = "num" /\ nextValue[<<>>].v > AgeLimit THEN "message"
  ELSE IF path = PA THEN (IF Kind(nextValue) = "str" THEN "message" ELSE "throws")
  ELSE "ok"
\* the validator `typeof value === "object"`: "ok" (true) or "no" (false)
ObjectValidator(path, nextValue, prevValue) ==
  IF Kind(nextValue) \in {"map", "null"} THEN "ok" ELSE "no"

Settled(val) == [kind |-> "value", val |-> val]
Thrown == [kind |-> "throw", val |-> Undef]
Pending == [kind |-> "pending", val |-> Undef]

\* faulty variant: the validator's result is only tested for truth, and a
\* message, being a non-empty string, lets the candidate through
ValidationStageTruthy(result, nextValue) ==
  IF result = "throws" THEN Thrown
  ELSE IF result = "no" THEN Settled(FalseV)
  ELSE Settled(nextValue)

\* createValidationMiddleware(validator)(path, nextValue, prevValue), given
\* the result of validator(path, nextValue, prevValue)
ValidationStage(result, nextValue) ==
  IF result = "throws" THEN Thrown
  ELSE IF result = "message" THEN Settled(FalseV)
  ELSE IF result = "ok" THEN Settled(nextValue)
  ELSE Settled(FalseV)

\* faulty variant: the catch block returns what the error handler returns,
\* false, as createAsyncMiddleware does
PersistenceStageVetoes(nextValue, fails) ==
  IF fails THEN Settled(FalseV) ELSE Settled(nextValue)

\* createPersistenceMiddleware(key)(path, nextValue, prevValue); fails: the
\* serialization or localStorage.setItem throws
PersistenceStage(nextValue, fails) == Settled(nextValue)

\* 1000 / limit of createThrottleMiddleware(1), one update per second
MsPerSecond == 1000
ThrottleLimit == 1
Interval == MsPerSecond \div ThrottleLimit
\* the clock at startup: at least one interval after the epoch, as any
\* present-day Date.now() is
StartTime == Interval
\* the clock is read every half interval
HalfInterval == Interval \div 2

\* now - lastUpdate < interval
Throttled(path) == now - lastUpdates[path] < Interval
\* createThrottleMiddleware(limit)(path, nextValue, prevValue)
ThrottleStage(path, nextValue, prevValue) ==
  IF Throttled(path) THEN Settled(prevValue) ELSE Settled(nextValue)

\* now - lastUpdate < interval, with the one lastUpdate of middleware.ts
ThrottledShared == now - lastUpdate < Interval
\* createThrottleMiddleware(limit)(path, nextValue, prevValue) of
\* middleware.ts
ThrottleStageShared(path, nextValue, prevValue) ==
  IF ThrottledShared THEN Settled(prevValue) ELSE Settled(nextValue)

\* what the call m(path, nextValue, prevValue) hands to the await of set;
\* "debounce" and "throttle" are the stages made by the factories of
\* part_003, which keep a timer and a time for each path, "debounceShared"
\* and "throttleShared" those made by the factories of middleware.ts, which
\* keep one timer and one time
StageResult(m, path, nextValue, prevValue) ==
  CASE m = "validate" -> ValidationStage(Validator(path, nextValue, prevValue), nextValue)
    [] m = "isObject" -> ValidationStage(ObjectValidator(path, nextValue, prevValue), nextValue)
    [] m = "log" -> Settled(nextValue)
    [] m = "persist" -> PersistenceStage(nextValue, sinkFails)
    [] m = "throttle" -> ThrottleStage(path, nextValue, prevValue)
    [] m = "throttleShared" -> ThrottleStageShared(path, nextValue, prevValue)
    [] m \in {"debounce", "debounceShared", "api", "rawApi"} -> Pending

\* what the API stage settles to once its request has succeeded (ok) or failed
ApiResult(m, nextValue, ok) ==
  IF ok THEN Settled(nextValue)
  ELSE IF m = "api" THEN Settled(FalseV)
  ELSE Thrown

\* faulty variants, to show that the properties below depend on the tests:
\* a loop without the test for false, and a loop whose catch does not leave
\* (as in the older setAtPath)
IsVetoNever(res) == FALSE
IsFaultNever(res) == FALSE

\* result === false
IsVeto(res) == res.kind = "value" /\ res.val = FalseV
\* the catch block of the loop is entered
IsFault(res) == res.kind = "throw"

\* ---------------------------------------------------------------- state
\* A call's locals (path, value, prev, next, the iterator arr/idx, the awaited
\* result res) and the record of what it did: the stages it invoked (ran),
\* their results, the callbacks it invoked (notes), the tree before and
\* after its update (pre, post), the subscribers at its update (subs),
\* whether the tree differs after
\* its update (mutated), whether the update threw (fault) and whether a
\* callback threw (threw), the candidate and previous value handed to each
\* stage (args), what get(path) returns at the moment the call to set has
\* returned its promise (immediate), whether its write to the sink failed
\* (sinkErr), the time of the call (issued), the value at the path just
\* before its update (atCommit), the call whose timer its debounce stage
\* cleared (cleared, 0 for none), whether the throttle stage refused it
\* (throttled), the stage whose removal was the last change of the list
\* before the call (afterRemove) and the list at the time of the call (list).
IdleCall ==
  [pc |-> "idle", path |-> <<>>, value |-> Undef, prev |-> Undef, next |-> Undef,
   arr |-> 0, idx |-> 0, res |-> Pending, outcome |-> "none",
   ran |-> <<>>, results |-> <<>>, notes |-> <<>>, pre |-> Undef, post |-> Undef, subs |-> <<>>,
   mutated |-> FALSE, fault |-> FALSE, threw |-> FALSE,
   args |-> <<>>, immediate |-> Undef, sinkErr |-> FALSE, issued |-> 0, atCommit |-> Undef,
   cleared |-> 0, throttled |-> FALSE, afterRemove |-> "none",
   list |-> <<>>]

\* the flat state {}: a flat state is a function from its keys to numbers
NoKeys == [k \in {} |-> 0]
NoFlatCall ==
  [made |-> FALSE, partial |-> NoKeys, pre |-> NoKeys, post |-> NoKeys, list |-> <<>>,
   ran |-> <<>>, args |-> <<>>, results |-> <<>>, veto |-> FALSE, threw |-> FALSE,
   there |-> {}, notified |-> {}, found |-> NoKeys]
\* flat.ts at load; commits counts the setState calls that installed a
\* state, sets all setState calls, last is the record of the last one (there:
\* the listeners in the set at the call, notified: those it invoked, found:
\* the state they found when invoked, threw: an exception left the call)
FlatBoot ==
  [state |-> NoKeys, listeners |-> <<>>, middlewares |-> <<>>,
   commits |-> 0, sets |-> 0, last |-> NoFlatCall]
NoWalk == [made |-> FALSE, obj |-> Undef, paths |-> {}]

\* The tree by reference.  An object is a function from its keys to slots;
\* a slot holds a primitive (a node as above) or a reference to an object,
\* the index of the object in objs, which lists the objects in the order
\* of their creation.
Ref(id) == Node("ref", id)
NoProps == [key \in {} |-> Node("undef", 0)]
\* held: the last get made on the tree by reference (the slot it returned
\* and the value that slot had then); last: the last set made on it since
\* that get (its path, the tree before and after it)
NoHeld == [made |-> FALSE, path |-> <<>>, slot |-> Node("undef", 0), value |-> Undef]
NoHeapSet == [made |-> FALSE, path |-> <<>>, fault |-> FALSE, pre |-> Undef, post |-> Undef]
\* tree.ts at load: `let state: Record<string, any> = {}`
HeapBoot == [objs |-> <<NoProps>>, root |-> Ref(1), sets |-> 0,
             held |-> NoHeld, last |-> NoHeapSet]

NoProbe == [made |-> FALSE, path |-> <<>>, tree |-> Undef, result |-> Undef]
NoRemoval == [m |-> "none", before |-> <<>>]

Init ==
  /\ state = EmptyObj
  /\ arrays = << <<>> >>
  /\ middleware = 1
  /\ subscribers = <<>>
  /\ calls = [c \in CallIds |-> IdleCall]
  /\ microtasks = <<>>
  /\ timeouts = [p \in SetPaths |-> 0]
  /\ sink = Undef
  /\ sinkFails = FALSE
  /\ now = StartTime
  /\ lastUpdates = [p \in SetPaths |-> 0]
  /\ probe = NoProbe
  /\ removed = NoRemoval
  /\ flat = FlatBoot /\ stores = <<>> /\ walk = NoWalk
  /\ timeout = 0 /\ lastUpdate = 0 /\ heap = HeapBoot

\* ------------------------------------------------------------- notifier
\* the handler that subscribe builds: does it call the callback for
\* changedPath?
HandlerFires(path, changedPath) == path = <<>> \/ StartsWith(changedPath, path)

\* subscribers.forEach(callback => callback(path)): the callbacks invoked,
\* in order, up to and including the first one that throws; a handler that
\* was deleted from the set is not visited
RECURSIVE FanOut(_, _, _)
FanOut(subs, changedPath, tree) ==
  IF subs = <<>> THEN [notes |-> <<>>, threw |-> FALSE]
  ELSE LET s == Head(subs)
       IN IF ~s.live \/ ~HandlerFires(s.path, changedPath)
          THEN FanOut(Tail(subs), changedPath, tree)
          ELSE LET note == [sub |-> s.id, arg |-> Get(tree, s.path)]
               IN IF s.throws THEN [notes |-> <<note>>, threw |-> TRUE]
                  ELSE LET rest == FanOut(Tail(subs), changedPath, tree)
                       IN [notes |-> <<note>> \o rest.notes, threw |-> rest.threw]

\* ------------------------------------------------------------------ set
\* the part of set after the loop: update, fan-out, return true
Commit(c, rec, mt) ==
  LET upd == Update(state, rec.path, rec.next)
      fan == IF upd.fault THEN [notes |-> <<>>, threw |-> FALSE]
             ELSE FanOut(subscribers, rec.path, upd.tree)
  IN /\ state' = upd.tree
     /\ calls' = [calls EXCEPT ![c] =
          [rec EXCEPT !.pc = "done",
                      !.outcome = IF upd.fault \/ fan.threw THEN "rejected" ELSE "true",
                      !.notes = fan.notes,
                      !.pre = state,
                      !.post = upd.tree,
                      !.subs = subscribers,
                      !.mutated = (upd.tree # state),
                      !.fault = upd.fault,
                      !.threw = fan.threw,
                      !.atCommit = Get(state, rec.path),
                      !.immediate = IF rec.ran = <<>> THEN Get(upd.tree, rec.path) ELSE @]]
     /\ microtasks' = mt
     /\ UNCHANGED <<timeouts, sink, lastUpdates, timeout, lastUpdate>>

\* faulty variant: the veto is noted but the remaining stages are still
\* invoked before false is returned
ReturnFalseLate(c, rec, mt) ==
  LET list == arrays[rec.arr]
      rest == SubSeq(list, rec.idx + 1, Len(list))
  IN /\ calls' = [calls EXCEPT ![c] =
          [rec EXCEPT !.pc = "done", !.outcome = "false", !.ran = @ \o rest]]
     /\ microtasks' = mt
     /\ sink' = IF \E i \in 1 .. Len(rest) : rest[i] = "persist" THEN rec.next ELSE sink
     /\ UNCHANGED <<state, timeouts, lastUpdates, timeout, lastUpdate>>

\* the two `return false` of the loop
ReturnFalse(c, rec, mt) ==
  /\ calls' = [calls EXCEPT ![c] = [rec EXCEPT !.pc = "done", !.outcome = "false"]]
  /\ microtasks' = mt
  /\ UNCHANGED <<state, timeouts, sink, lastUpdates, timeout, lastUpdate>>

\* faulty variant: the continuation queued last runs first
EnqueueFirst(mt, c) == <<c>> \o mt

\* the continuation of call c is queued behind those already waiting: the
\* microtask queue is first in, first out
Enqueue(mt, c) == Append(mt, c)

\* one turn of the loop from position i of the iterated array: invoke the
\* stage and suspend at the await, or leave the loop and commit
Continue(c, rec, i, mt) ==
  IF i <= Len(arrays[rec.arr])
  THEN LET m == arrays[rec.arr][i]
           r == StageResult(m, rec.path, rec.next, rec.prev)
       IN /\ calls' = [calls EXCEPT ![c] =
               [rec EXCEPT !.pc = "await", !.idx = i, !.res = r, !.ran = Append(@, m),
                           !.args = Append(@, [next |-> rec.next, prev |-> rec.prev]),
                           !.sinkErr = @ \/ (m = "persist" /\ sinkFails),
                           !.cleared = IF m = "debounce" THEN timeouts[rec.path]
                                       ELSE IF m = "debounceShared" THEN timeout ELSE @,
                           !.throttled = @ \/ (m = "throttle" /\ Throttled(rec.path))
                                           \/ (m = "throttleShared" /\ ThrottledShared),
                           !.immediate = IF rec.ran = <<>> THEN Get(state, rec.path) ELSE @]]
          /\ timeouts' = IF m = "debounce" THEN [timeouts EXCEPT ![rec.path] = c]
                         ELSE timeouts
          /\ sink' = IF m = "persist" /\ ~sinkFails THEN rec.next ELSE sink
          /\ lastUpdates' = IF m = "throttle" /\ ~Throttled(rec.path)
                            THEN [lastUpdates EXCEPT ![rec.path] = now]
                            ELSE lastUpdates
          /\ timeout' = IF m = "debounceShared" THEN c ELSE timeout
          /\ lastUpdate' = IF m = "throttleShared" /\ ~ThrottledShared THEN now
                           ELSE lastUpdate
          /\ microtasks' = IF r.kind = "pending" THEN mt ELSE Enqueue(mt, c)
          /\ UNCHANGED state
  ELSE Commit(c, rec, mt)

\* set(path, value) up to its first await (or to its end when the list is empty)
StartSet(c, path, value) ==
  /\ calls[c].pc = "idle"
  /\ \A d \in CallIds : d < c => calls[d].pc # "idle"
  /\ Continue(c, [IdleCall EXCEPT !.path = path, !.value = value,
                                  !.prev = Get(state, path), !.next = value,
                                  !.arr = middleware, !.issued = now,
                                  !.afterRemove = removed.m,
                                  !.list = arrays[middleware]], 1, microtasks)
  /\ UNCHANGED <<arrays, middleware, subscribers, sinkFails, now, probe, removed,
                 flat, stores, walk, heap>>

\* faulty variant: the result of a stage is tested but never becomes the
\* candidate
NextCandidateKept(rec) == rec.next

\* nextValue = result
NextCandidate(rec) == rec.res.val

\* the continuation of set after an await
Resume(c) ==
  /\ microtasks # <<>>
  /\ c = Head(microtasks)
  /\ LET rec == [calls[c] EXCEPT !.results = Append(@, calls[c].res)]
     IN IF IsFault(rec.res) \/ IsVeto(rec.res)
        THEN ReturnFalse(c, rec, Tail(microtasks))
        ELSE Continue(c, [rec EXCEPT !.next = NextCandidate(rec)], rec.idx + 1, Tail(microtasks))
  /\ UNCHANGED <<arrays, middleware, subscribers, sinkFails, now, probe, removed,
                 flat, stores, walk, heap>>

\* faulty variant: the timer resolves with the value the call found at the
\* path
TimerResultPrev(c) == Settled(calls[c].prev)

\* resolve(nextValue) in the timer callback
TimerResult(c) == Settled(calls[c].next)

\* the timer callback of the debounce stage
TimerFire(path) ==
  /\ microtasks = <<>>
  /\ timeouts[path] # 0
  /\ LET c == timeouts[path]
     IN /\ timeouts' = [timeouts EXCEPT ![path] = 0]
        /\ calls' = [calls EXCEPT ![c].res = TimerResult(c)]
        /\ microtasks' = Append(microtasks, c)
  /\ UNCHANGED <<state, arrays, middleware, subscribers, sink, sinkFails, now, lastUpdates, probe, removed,
                 flat, stores, walk, timeout, lastUpdate, heap>>

\* the timer callback of the debounce stage of middleware.ts:
\* resolve(nextValue); timeout = null
TimeoutFire ==
  /\ microtasks = <<>>
  /\ timeout # 0
  /\ timeout' = 0
  /\ calls' = [calls EXCEPT ![timeout].res = TimerResult(timeout)]
  /\ microtasks' = Append(microtasks, timeout)
  /\ UNCHANGED <<state, arrays, middleware, subscribers, timeouts, sink, sinkFails, now,
                 lastUpdates, probe, removed, flat, stores, walk, lastUpdate, heap>>

\* the request of the API stage succeeds or fails
ApiSettle(c, ok) ==
  /\ microtasks = <<>>
  /\ calls[c].pc = "await"
  /\ calls[c].res = Pending
  /\ arrays[calls[c].arr][calls[c].idx] \in {"api", "rawApi"}
  /\ calls' = [calls EXCEPT ![c].res =
        ApiResult(arrays[calls[c].arr][calls[c].idx], calls[c].next, ok)]
  /\ microtasks' = Append(microtasks, c)
  /\ UNCHANGED <<state, arrays, middleware, subscribers, timeouts, sink,
                 sinkFails, now, lastUpdates, probe, removed, flat, stores, walk,
                 timeout, lastUpdate, heap>>

\* subscribe(path, callback)
Subscribe(path, throws) ==
  /\ Len(subscribers) < MaxSubs
  /\ subscribers' = Append(subscribers,
        [id |-> Len(subscribers) + 1, path |-> path, throws |-> throws, live |-> TRUE])
  /\ UNCHANGED <<state, arrays, middleware, calls, microtasks, timeouts, sink,
                 sinkFails, now, lastUpdates, probe, removed, flat, stores, walk,
                 timeout, lastUpdate, heap>>

\* faulty variant: the closure deletes by path, and with it every handler
\* registered on the path of its own
UnsubscribeByPath(id) ==
  /\ id <= Len(subscribers)
  /\ subscribers' = [i \in 1 .. Len(subscribers) |->
        IF subscribers[i].path = subscribers[id].path
        THEN [subscribers[i] EXCEPT !.live = FALSE]
        ELSE subscribers[i]]
  /\ UNCHANGED <<state, arrays, middleware, calls, microtasks, timeouts, sink,
                 sinkFails, now, lastUpdates, probe, removed, flat, stores, walk,
                 timeout, lastUpdate, heap>>

\* the closure returned by the subscribe call that added handler id:
\* subscribers.delete(handler)
Unsubscribe(id) ==
  /\ id <= Len(subscribers)
  /\ subscribers' = [subscribers EXCEPT ![id].live = FALSE]
  /\ UNCHANGED <<state, arrays, middleware, calls, microtasks, timeouts, sink,
                 sinkFails, now, lastUpdates, probe, removed, flat, stores, walk,
                 timeout, lastUpdate, heap>>

\* the list argument of a call that gives no middleware list
Omitted == <<"omitted">>
\* the truth value a condition gives to val
Truthy(val) ==
  /\ Kind(val) \notin {"undef", "null"}
  /\ Kind(val) \in {"bool", "num", "str"} => val[<<>>].v # 0

\* faulty variant: the subscriptions are dropped with the old tree
InitTreeClearsSubscribers(initialState, list) ==
  /\ state' = IF Truthy(initialState) THEN initialState ELSE state
  /\ arrays' = IF list # Omitted THEN Append(arrays, list) ELSE arrays
  /\ middleware' = IF list # Omitted THEN Len(arrays) + 1 ELSE middleware
  /\ removed' = NoRemoval
  /\ subscribers' = <<>>
  /\ UNCHANGED <<calls, microtasks, timeouts, sink,
                 sinkFails, now, lastUpdates, probe, flat, stores, walk,
                 timeout, lastUpdate, heap>>

\* the body of initTreeState(config)
InitTree(initialState, list) ==
  /\ state' = IF Truthy(initialState) THEN initialState ELSE state
  /\ arrays' = IF list # Omitted THEN Append(arrays, list) ELSE arrays
  /\ middleware' = IF list # Omitted THEN Len(arrays) + 1 ELSE middleware
  /\ removed' = NoRemoval
  /\ UNCHANGED <<subscribers, calls, microtasks, timeouts, sink,
                 sinkFails, now, lastUpdates, probe, flat, stores, walk,
                 timeout, lastUpdate, heap>>

\* initTreeState(config)
InitTreeState(initialState, list) ==
  /\ Len(arrays) <= MaxInits
  /\ InitTree(initialState, list)

\* (options.middleware || []).map(adaptMiddleware): a stage of three
\* parameters is kept as it is
OptionsList(given) == IF given = Omitted THEN <<>> ELSE given

\* createStore(initialState, options); the store returned hands its calls
\* to get, set, subscribe and addMiddleware of the tree module
CreateStore(initialState, given) ==
  /\ Len(arrays) <= MaxStores
  /\ InitTree(initialState, OptionsList(given))

Next ==
  \/ \E c \in CallIds, in \in SetInputs : StartSet(c, in.path, in.value)
  \/ \E c \in CallIds : Resume(c)
  \/ \E path \in SetPaths : TimerFire(path)
  \/ \E c \in CallIds, ok \in BOOLEAN : ApiSettle(c, ok)
  \/ \E in \in SubInputs : Subscribe(in.path, in.throws)
  \/ \E initialState \in InitialStates, list \in Pipelines : InitTreeState(initialState, list)

Spec == Init /\ [][Next]_vars

\* The store of a started application: initTreeState has installed one of
\* the documented middleware lists and the components have subscribed.
PipeInit ==
  \E list \in Pipelines, subs \in SubConfigs :
    /\ state = EmptyObj
    /\ arrays = << <<>>, list >>
    /\ middleware = 2
    /\ subscribers = subs
    /\ calls = [c \in CallIds |-> IdleCall]
    /\ microtasks = <<>>
    /\ timeouts = [p \in SetPaths |-> 0]
    /\ sink = Undef
    /\ sinkFails = FALSE
    /\ now = StartTime
    /\ lastUpdates = [p \in SetPaths |-> 0]
    /\ probe = NoProbe
    /\ removed = NoRemoval
    /\ flat = FlatBoot /\ stores = <<>> /\ walk = NoWalk
    /\ timeout = 0 /\ lastUpdate = 0 /\ heap = HeapBoot

PipeNext ==
  \/ \E c \in CallIds, in \in SetInputs : StartSet(c, in.path, in.value)
  \/ \E c \in CallIds : Resume(c)
  \/ \E path \in SetPaths : TimerFire(path)
  \/ \E c \in CallIds, ok \in BOOLEAN : ApiSettle(c, ok)

PipeSpec == PipeInit /\ [][PipeNext]_vars

\* Every queued continuation runs, every scheduled timer fires and every
\* request of an API stage comes back.
FairPipeSpec ==
  /\ PipeSpec
  /\ WF_vars(\E c \in CallIds : Resume(c))
  /\ WF_vars(\E path \in SetPaths : TimerFire(path))
  /\ WF_vars(\E c \in CallIds, ok \in BOOLEAN : ApiSettle(c, ok))

\* addMiddleware(m)
AddMiddleware(m) ==
  /\ Len(arrays[middleware]) < MaxStages
  /\ arrays' = [arrays EXCEPT ![middleware] = Append(@, m)]
  /\ removed' = NoRemoval
  /\ UNCHANGED <<state, middleware, subscribers, calls, microtasks, timeouts, sink,
                 sinkFails, now, lastUpdates, probe, flat, stores, walk,
                 timeout, lastUpdate, heap>>

\* list.indexOf(m), counted from 1; 0 when m is not in the list
IndexOf(list, m) ==
  IF \E i \in 1 .. Len(list) : list[i] = m
  THEN CHOOSE i \in 1 .. Len(list) : list[i] = m /\ \A j \in 1 .. i - 1 : list[j] # m
  ELSE 0
\* list.splice(index, 1)
Splice(list, index) == SubSeq(list, 1, index - 1) \o SubSeq(list, index + 1, Len(list))

\* removeMiddleware(m)
RemoveMiddleware(m) ==
  /\ LET index == IndexOf(arrays[middleware], m)
     IN arrays' = IF index # 0
                  THEN [arrays EXCEPT ![middleware] = Splice(@, index)]
                  ELSE arrays
  /\ removed' = [m |-> m, before |-> arrays[middleware]]
  /\ UNCHANGED <<state, middleware, subscribers, calls, microtasks, timeouts, sink,
                 sinkFails, now, lastUpdates, probe, flat, stores, walk,
                 timeout, lastUpdate, heap>>

\* faulty variant: the read walks as the write does and creates the missing
\* first segment of a longer path as an empty mapping
GetCallCreates(path) ==
  /\ probe' = [made |-> TRUE, path |-> path, tree |-> state, result |-> Get(state, path)]
  /\ state' = IF /\ Len(Parts(path)) > 1
                 /\ IsObject(state)
                 /\ <<Head(Parts(path))>> \notin DOMAIN state
              THEN Graft(state, <<Head(Parts(path))>>, EmptyObj)
              ELSE state
  /\ UNCHANGED <<arrays, middleware, subscribers, calls, microtasks, timeouts, sink,
                 sinkFails, now, lastUpdates, removed, flat, stores, walk,
                 timeout, lastUpdate, heap>>

\* a call get(path) made on its own
GetCall(path) ==
  /\ probe' = [made |-> TRUE, path |-> path, tree |-> state, result |-> Get(state, path)]
  /\ UNCHANGED <<state, arrays, middleware, subscribers, calls, microtasks, timeouts, sink,
                 sinkFails, now, lastUpdates, removed, flat, stores, walk,
                 timeout, lastUpdate, heap>>

\* Date.now() returns a later time
Tick ==
  /\ now < StartTime + MaxTicks * HalfInterval
  /\ now' = now + HalfInterval
  /\ UNCHANGED <<state, arrays, middleware, subscribers, calls, microtasks, timeouts, sink,
                 sinkFails, lastUpdates, probe, removed, flat, stores, walk,
                 timeout, lastUpdate, heap>>

\* The store of an application whose stages all return at once: a throttled
\* and validated form, or a store with two validators; the storage quota
\* may be exceeded.
FlowInputs ==
  { [path |-> PAB, value |-> Num(1)],
    [path |-> PAB, value |-> Num(121)],
    [path |-> PA, value |-> Str(4)],
    [path |-> PA, value |-> ObjB] }
FlowPipelines ==
  { <<"throttle", "validate", "persist", "log">>,
    <<"validate", "isObject", "persist">> }
FlowInit ==
  \E list \in FlowPipelines, subs \in SubConfigs, fails \in BOOLEAN :
    /\ state = EmptyObj
    /\ arrays = << <<>>, list >>
    /\ middleware = 2
    /\ subscribers = subs
    /\ calls = [c \in CallIds |-> IdleCall]
    /\ microtasks = <<>>
    /\ timeouts = [p \in SetPaths |-> 0]
    /\ sink = Undef
    /\ sinkFails = fails
    /\ now = StartTime
    /\ lastUpdates = [p \in SetPaths |-> 0]
    /\ probe = NoProbe
    /\ removed = NoRemoval
    /\ flat = FlatBoot /\ stores = <<>> /\ walk = NoWalk
    /\ timeout = 0 /\ lastUpdate = 0 /\ heap = HeapBoot

FlowNext ==
  \/ \E c \in CallIds, in \in FlowInputs : StartSet(c, in.path, in.value)
  \/ \E c \in CallIds : Resume(c)
  \/ Tick

FlowSpec == FlowInit /\ [][FlowNext]_vars

\* The store with stages that only observe: logging and persistence.  The
\* values written include false, null and undefined.
PassInputs ==
  { [path |-> PAB, value |-> Num(1)],
    [path |-> PAB, value |-> FalseV],
    [path |-> PAB, value |-> NullV],
    [path |-> PAB, value |-> Undef],
    [path |-> PAA, value |-> FalseV] }
PassPipelines == { <<"log", "persist">>, <<"persist">> }
PassInit ==
  \E list \in PassPipelines, subs \in SubConfigs :
    /\ state = EmptyObj
    /\ arrays = << <<>>, list >>
    /\ middleware = 2
    /\ subscribers = subs
    /\ calls = [c \in CallIds |-> IdleCall]
    /\ microtasks = <<>>
    /\ timeouts = [p \in SetPaths |-> 0]
    /\ sink = Undef
    /\ sinkFails = FALSE
    /\ now = StartTime
    /\ lastUpdates = [p \in SetPaths |-> 0]
    /\ probe = NoProbe
    /\ removed = NoRemoval
    /\ flat = FlatBoot /\ stores = <<>> /\ walk = NoWalk
    /\ timeout = 0 /\ lastUpdate = 0 /\ heap = HeapBoot

PassNext ==
  \/ \E c \in CallIds, in \in PassInputs : StartSet(c, in.path, in.value)
  \/ \E c \in CallIds : Resume(c)

PassSpec == PassInit /\ [][PassNext]_vars

\* The store of the documented form: its writes are debounced, logged and
\* persisted.
DebounceInputs ==
  { [path |-> PAB, value |-> Num(1)],
    [path |-> PAB, value |-> Num(121)],
    [path |-> PAA, value |-> Num(1)] }
DebouncePipelines == { <<"debounce", "log", "persist">> }
DebounceInit ==
  \E list \in DebouncePipelines, subs \in SubConfigs :
    /\ state = EmptyObj
    /\ arrays = << <<>>, list >>
    /\ middleware = 2
    /\ subscribers = subs
    /\ calls = [c \in CallIds |-> IdleCall]
    /\ microtasks = <<>>
    /\ timeouts = [p \in SetPaths |-> 0]
    /\ sink = Undef
    /\ sinkFails = FALSE
    /\ now = StartTime
    /\ lastUpdates = [p \in SetPaths |-> 0]
    /\ probe = NoProbe
    /\ removed = NoRemoval
    /\ flat = FlatBoot /\ stores = <<>> /\ walk = NoWalk
    /\ timeout = 0 /\ lastUpdate = 0 /\ heap = HeapBoot

DebounceNext ==
  \/ \E c \in CallIds, in \in DebounceInputs : StartSet(c, in.path, in.value)
  \/ \E c \in CallIds : Resume(c)
  \/ \E path \in SetPaths : TimerFire(path)

DebounceSpec == DebounceInit /\ [][DebounceNext]_vars

\* Every queued continuation runs and every scheduled timer fires.  The
\* first condition is WF_vars(\E c \in CallIds : Resume(c)) written out: a
\* continuation is enabled exactly when the microtask queue is not empty.
FairDebounceSpec ==
  /\ DebounceSpec
  /\ []<>(microtasks = <<>>) \/ []<><<\E c \in CallIds : Resume(c)>>_vars
  /\ WF_vars(\E path \in SetPaths : TimerFire(path))

\* The store whose list is built and changed by addMiddleware and
\* removeMiddleware while writes are made.
ListStages == {"validate", "log"}
ListInputs ==
  { [path |-> PAB, value |-> Num(1)],
    [path |-> PAB, value |-> Num(121)] }
ListNext ==
  \/ \E m \in ListStages : AddMiddleware(m)
  \/ \E m \in ListStages : RemoveMiddleware(m)
  \/ \E c \in CallIds, in \in ListInputs : StartSet(c, in.path, in.value)
  \/ \E c \in CallIds : Resume(c)

ListSpec == Init /\ [][ListNext]_vars

\* The store without middleware, written and read: the values written are a
\* name, numbers, null and an object, at the root and below it.
GetInputs ==
  { [path |-> PA, value |-> Str(4)],
    [path |-> PA, value |-> Num(1)],
    [path |-> PA, value |-> NullV],
    [path |-> PAB, value |-> Num(1)],
    [path |-> PEmpty, value |-> NullV],
    [path |-> PEmpty, value |-> Num(1)],
    [path |-> PEmpty, value |-> ObjB] }
GetPaths == {PEmpty, PA, PAB, PAA, PALength, PSlash}
GetNext ==
  \/ \E c \in CallIds, in \in GetInputs : StartSet(c, in.path, in.value)
  \/ \E path \in GetPaths : GetCall(path)

GetSpec == Init /\ [][GetNext]_vars

\* ------------------------------------------------------------ properties
Done(c) == calls[c].pc = "done"
\* some stage of the call returned false
Vetoed(c) == \E i \in 1 .. Len(calls[c].results) : calls[c].results[i] = Settled(FalseV)
\* some stage of the call threw, or its promise rejected
Faulted(c) == \E i \in 1 .. Len(calls[c].results) : calls[c].results[i].kind = "throw"
\* the call replaced the value in the tree
Committed(c) == Done(c) /\ calls[c].outcome # "false" /\ ~calls[c].fault
\* some handler registered now calls its callback for the path of the call
SomeHandlerFires(c) ==
  \E i \in 1 .. Len(subscribers) : HandlerFires(subscribers[i].path, calls[c].path)
\* q is p or a segment-wise ancestor of p (the empty prefix is one of all)
SegPrefix(q, p) == IsPrefixSeq(Parts(q), Parts(p))
Notified(c, id) == \E j \in 1 .. Len(calls[c].notes) : calls[c].notes[j].sub = id

\* C1: with no middleware installed, when set(P, V) has resolved, get(P)
\* returns V, for every path P and every value V (a call that rejects is
\* left to C9).
C1_RoundTrip ==
  \A c \in CallIds :
    (Done(c) /\ arrays[calls[c].arr] = <<>> /\ calls[c].outcome = "true")
      => Get(calls[c].post, calls[c].path) = calls[c].value

\* C2: a set call one of whose stages vetoed wrote nothing (the tree after
\* its last step is the tree before it, no node was created) and invoked no
\* subscriber callback.
C2_VetoLeavesTreeAndSubscribers ==
  \A c \in CallIds :
    Vetoed(c) => Done(c) /\ ~Committed(c) /\ ~calls[c].mutated /\ calls[c].notes = <<>>

C2_Witness ==
  \E c \in CallIds :
    /\ Vetoed(c) /\ Done(c)
    /\ SomeHandlerFires(c)
    /\ calls[c].value # calls[c].prev

\* the request of the wrapped API stage failed (createAsyncMiddleware turns
\* the rejection into false)
WrappedFailed(c) ==
  \E i \in 1 .. Len(calls[c].results) :
    calls[c].ran[i] = "api" /\ calls[c].results[i] = Settled(FalseV)

\* C3: a set call one of whose stages threw, or whose pending computation
\* rejected, resolves to false, wrote nothing and invoked no subscriber
\* callback.
C3_FaultIsVeto ==
  \A c \in CallIds :
    (Faulted(c) \/ WrappedFailed(c))
      => /\ Done(c) /\ calls[c].outcome = "false"
         /\ ~calls[c].mutated /\ calls[c].notes = <<>>

\* one call failed in the synchronous validator, one in the rejected request
C3_Witness ==
  \E c, d \in CallIds :
    /\ Faulted(c) /\ calls[c].ran[Len(calls[c].ran)] = "validate"
    /\ Faulted(d) /\ calls[d].ran[Len(calls[d].ran)] = "rawApi"
    /\ SomeHandlerFires(c) /\ SomeHandlerFires(d)

\* C4: once a stage of a set call has vetoed or faulted, that stage is the
\* last one the call invokes: no later stage (such as the persistence write)
\* runs for it.
C4_NoStageAfterVeto ==
  \A c \in CallIds : \A i \in 1 .. Len(calls[c].results) :
    (calls[c].results[i] = Settled(FalseV) \/ calls[c].results[i].kind = "throw")
      => Done(c) /\ Len(calls[c].ran) = i

\* a call was stopped ahead of the persistence stage, which has written nothing
C4_Witness ==
  \E c \in CallIds :
    /\ Vetoed(c) \/ Faulted(c)
    /\ Len(calls[c].ran) < Len(arrays[calls[c].arr])
    /\ arrays[calls[c].arr][Len(arrays[calls[c].arr])] = "persist"
    /\ sink = Undef

\* C5: for every committed set at P and every subscription whose prefix is
\* P, a segment-wise ancestor of P or empty, the callback is invoked exactly
\* once, after the update, with the value at its own prefix.
C5_EveryAncestorNotifiedOnce ==
  \A c \in CallIds : Committed(c) =>
    \A i \in 1 .. Len(calls[c].subs) :
      LET s == calls[c].subs[i]
          mine == SelectSeq(calls[c].notes, LAMBDA n : n.sub = s.id)
      IN SegPrefix(s.path, calls[c].path)
           => Len(mine) = 1 /\ mine[1].arg = Get(calls[c].post, s.path)

\* C6: a committed set at P invokes no subscription whose prefix is neither
\* P nor a segment-wise ancestor of P.
C6_SegmentWiseMatching ==
  \A c \in CallIds : \A j \in 1 .. Len(calls[c].notes) :
    \E i \in 1 .. Len(calls[c].subs) :
      /\ calls[c].subs[i].id = calls[c].notes[j].sub
      /\ SegPrefix(calls[c].subs[i].path, calls[c].path)

\* q is a strict segment-wise ancestor of p
StrictSegPrefix(q, p) == SegPrefix(q, p) /\ Parts(q) # Parts(p)

\* C7: a subscription on P is called whenever the value at P changes; the
\* case stated here is the one the claim names: a committed set at a strict
\* ancestor of P, or at the root, that changes the value at P.
C7_CalledWhenAncestorReplaced ==
  \A c \in CallIds : Committed(c) =>
    \A i \in 1 .. Len(calls[c].subs) :
      LET s == calls[c].subs[i]
      IN (/\ StrictSegPrefix(calls[c].path, s.path)
          /\ Get(calls[c].pre, s.path) # Get(calls[c].post, s.path))
           => Notified(c, s.id)

\* C8: every set call that was issued eventually resolves to true or false
\* (a call that rejects because a subscriber callback threw is left to C37).
C8_EveryCallResolves ==
  \A c \in CallIds :
    (calls[c].pc = "await") ~> (calls[c].outcome \in {"true", "false"} \/ calls[c].threw)

\* C9: set never throws or rejects because of the path, the value or the
\* tree: a call none of whose subscriber callbacks threw ends with the
\* outcome true or false.
C9_SetNeverRejects ==
  \A c \in CallIds :
    (Done(c) /\ ~calls[c].threw) => calls[c].outcome \in {"true", "false"}

\* C10: set resolves to true exactly when the final candidate was written
\* at the path and the subscribers were notified, and to false exactly when
\* a stage vetoed or faulted, and then nothing was written and nobody was
\* notified.
C10_OutcomeTellsWhatHappened ==
  \A c \in CallIds : Done(c) =>
    LET written == Committed(c) /\ Get(calls[c].post, calls[c].path) = calls[c].next
        notified == \A i \in 1 .. Len(calls[c].subs) :
                      HandlerFires(calls[c].subs[i].path, calls[c].path)
                        => Notified(c, calls[c].subs[i].id)
    IN /\ (calls[c].outcome = "true") <=> (written /\ notified)
       /\ (calls[c].outcome = "false") <=> (Vetoed(c) \/ Faulted(c))
       /\ (calls[c].outcome = "false") => (~calls[c].mutated /\ calls[c].notes = <<>>)

\* the key path that the update of set(path, ...) assigns
TargetKeys(path) ==
  IF path = <<>> THEN <<>>
  ELSE IF Parts(path) = <<>> THEN <<UndefinedKey>> ELSE Parts(path)

\* C11: the stages of a set call are invoked in the order of the list, one
\* at a time, each after the result of the one before is there; the first
\* receives the value of the call and each later one the result of the
\* stage before it, all receive the value that was at the path when the
\* call started, and the value written is the result of the last stage.
C11_StagesRunInOrder ==
  \A c \in CallIds :
    LET r == calls[c]
        list == arrays[r.arr]
    IN r.pc # "idle" =>
       /\ Len(r.ran) <= Len(list)
       /\ \A i \in 1 .. Len(r.ran) : r.ran[i] = list[i]
       /\ Len(r.results) = IF r.pc = "await" THEN Len(r.ran) - 1 ELSE Len(r.ran)
       /\ \A i \in 1 .. Len(r.args) :
            /\ r.args[i].prev = r.prev
            /\ r.args[i].next = IF i = 1 THEN r.value ELSE r.results[i - 1].val
       /\ (Committed(c) /\ list # <<>>) =>
            /\ Len(r.results) = Len(list)
            /\ Subtree(r.post, TargetKeys(r.path)) = r.results[Len(list)].val

\* a call was committed after a stage had replaced its candidate
C11_Witness ==
  \E c \in CallIds :
    /\ Committed(c)
    /\ Len(calls[c].ran) > 1
    /\ calls[c].results[1].val # calls[c].value
    /\ calls[c].args[2].next = calls[c].results[1].val

\* C12: when a stage returns undefined, the candidate handed to the next
\* stage, and the value written when it was the last stage, is the candidate
\* that stage received.
C12_UndefinedIsNoChange ==
  \A c \in CallIds :
    LET r == calls[c]
    IN \A i \in 1 .. Len(r.results) :
         r.results[i] = Settled(Undef) =>
           /\ (i < Len(r.args)) => r.args[i + 1].next = r.args[i].next
           /\ (Committed(c) /\ i = Len(r.ran)) =>
                Subtree(r.post, TargetKeys(r.path)) = r.args[i].next

\* every stage of the list returns its candidate unchanged
PassThrough(list) == \A i \in 1 .. Len(list) : list[i] \in {"log", "persist"}

\* C13: with only pass-through stages installed, a set call ends as it does
\* with no middleware at all: it is not vetoed and it writes its value at
\* its path, whatever the value (false, null and undefined included).
C13_PassThroughIsTransparent ==
  \A c \in CallIds :
    (Done(c) /\ PassThrough(arrays[calls[c].arr])) =>
      /\ calls[c].outcome # "false"
      /\ calls[c].post = Update(calls[c].pre, calls[c].path, calls[c].value).tree

\* C14: for a set call that no stage vetoes, a get of its path made at the
\* moment the call has returned its promise, before anything is awaited,
\* yields the value the call commits.
C14_ReadRightAfterSet ==
  \A c \in CallIds :
    (Done(c) /\ calls[c].outcome = "true") =>
      calls[c].immediate = Get(calls[c].post, calls[c].path)

\* the call is held by the debounce stage
Held(c) ==
  /\ calls[c].pc = "await" /\ calls[c].res = Pending
  /\ arrays[calls[c].arr][calls[c].idx] = "debounce"
\* its timer is the one scheduled for its path
Armed(c) == Held(c) /\ timeouts[calls[c].path] = c
\* a later call to the same path arrived within the window and cleared its timer
Superseded(c) == \E d \in CallIds : calls[d].cleared = c

\* C15: of the set calls to one path that reach the debounce stage within
\* the window of one another, exactly one is committed, the last, with the
\* value it proposed: a call whose timer a later call cleared never leaves
\* the stage, a call that leaves the stage does so with its own value and
\* writes it at its path, and a call whose timer is scheduled is in the end
\* superseded or committed.
C15_DebounceCommitsLastOnly ==
  /\ [](\A c \in CallIds :
          /\ Superseded(c) => (Held(c) /\ ~Armed(c))
          /\ Len(calls[c].results) > 0 => calls[c].results[1] = Settled(calls[c].value)
          /\ Done(c) => (Committed(c) /\ Get(calls[c].post, calls[c].path) = calls[c].value))
  /\ \A c \in CallIds : Armed(c) ~> (Superseded(c) \/ Committed(c))

\* a burst of two calls to one path with different values has ended: the
\* first is still held, the second is committed and its value is in the tree
C15_Witness ==
  \E c, d \in CallIds :
    /\ calls[d].cleared = c
    /\ calls[c].value # calls[d].value
    /\ Held(c)
    /\ Committed(d)
    /\ Get(state, calls[d].path) = calls[d].value

\* C16: a set call that the rate-limit stage refuses, because it follows a
\* call to the same path by less than the interval, writes the value that
\* is at the path when it commits: its commit leaves the value at the path
\* as it is, whether or not the earlier call had committed when it was
\* issued.
C16_ThrottledCallKeepsValue ==
  \A c \in CallIds :
    (Committed(c) /\ calls[c].throttled) =>
      Get(calls[c].post, calls[c].path) = calls[c].atCommit

\* stage m vetoes the proposal of the call
WouldVeto(m, c) ==
  IsVeto(StageResult(m, calls[c].path, calls[c].value, calls[c].prev))

\* C17: after removeMiddleware(m) the list is the list before it without m,
\* the other stages in their order (and the same list when m was not in
\* it), and a set call made then, which m would have vetoed and no other
\* stage vetoes, commits (the case stated is the call that runs the list as
\* it was when the call was made).
C17_RemovedStageIsGone ==
  /\ removed.m # "none" =>
       arrays[middleware] = SelectSeq(removed.before, LAMBDA x : x # removed.m)
  /\ \A c \in CallIds :
       (/\ Done(c)
        /\ calls[c].afterRemove # "none"
        /\ IsPrefixSeq(calls[c].ran, calls[c].list)
        /\ WouldVeto(calls[c].afterRemove, c)
        /\ \A x \in ListStages \ {calls[c].afterRemove} : ~WouldVeto(x, c))
         => Committed(c)

\* what the validator of validation stage m returns for the arguments
ValidatorOf(m, path, nextValue, prevValue) ==
  IF m = "validate" THEN Validator(path, nextValue, prevValue)
  ELSE ObjectValidator(path, nextValue, prevValue)

C19_SinkFailureDoesNotVeto ==
  \A c \in CallIds :
    LET r == calls[c]
    IN \A i \in 1 .. Len(r.ran) :
         (r.ran[i] = "persist" /\ sinkFails) =>
           /\ (i <= Len(r.results)) => r.results[i] = Settled(r.args[i].next)
           /\ Done(c) =>
                /\ r.ran = arrays[r.arr]
                /\ Committed(c)
                /\ Subtree(r.post, TargetKeys(r.path)) = r.args[i].next

\* a call whose write to the sink failed ran the logging stage after it and
\* is committed: its value is in the tree and the sink holds nothing
C19_Witness ==
  \E c \in CallIds :
    /\ calls[c].sinkErr
    /\ calls[c].ran[Len(calls[c].ran)] = "log"
    /\ Committed(c)
    /\ Get(state, calls[c].path) = calls[c].value
    /\ calls[c].value # Undef
    /\ sink = Undef

\* the node at key path keys of tree t, undefined when there is none
NodeAt(t, keys) == IF keys \in DOMAIN t THEN Subtree(t, keys) ELSE Undef

\* C20: get returns the absent value whenever a strict prefix of the path
\* holds no mapping (a scalar, a string, null or nothing; the root
\* included), and whenever nothing was written at the path.
C20_GetReturnsAbsent ==
  probe.made =>
    LET parts == Parts(probe.path)
    IN /\ (\E k \in 0 .. Len(parts) - 1 :
              Kind(NodeAt(probe.tree, SubSeq(parts, 1, k))) # "map")
            => probe.result = Undef
       /\ (parts \notin DOMAIN probe.tree) => probe.result = Undef

\* the spellings of the paths that are written and read
Spellings == {PEmpty, PSlash, PA, PSlashA, PAA, PAB}

\* C21: get and set normalize a path alike: after a committed set through
\* one spelling, get through any spelling with the same segments returns the
\* written value, a set through that spelling would have written the same
\* node, and a path without segments ("/") replaces the whole root as the
\* empty path does.
C21_SpellingsAgree ==
  \A c \in CallIds : Committed(c) =>
    /\ \A q \in Spellings :
         Parts(q) = Parts(calls[c].path) =>
           /\ Get(calls[c].post, q) = calls[c].next
           /\ Update(calls[c].pre, q, calls[c].next).tree = calls[c].post
    /\ Parts(calls[c].path) = <<>> => calls[c].post = calls[c].next

\* The store with observing stages installed and no subscription yet: it is
\* written, read and subscribed to.
ReadInputs ==
  { [path |-> PAB, value |-> Num(1)],
    [path |-> PA, value |-> NullV] }
ReadPaths == {PA, PAB, PAA}
ReadSubs ==
  { [path |-> PA, throws |-> FALSE],
    [path |-> PAB, throws |-> FALSE] }
ReadInit ==
  \E list \in PassPipelines :
    /\ state = EmptyObj
    /\ arrays = << <<>>, list >>
    /\ middleware = 2
    /\ subscribers = <<>>
    /\ calls = [c \in CallIds |-> IdleCall]
    /\ microtasks = <<>>
    /\ timeouts = [p \in SetPaths |-> 0]
    /\ sink = Undef
    /\ sinkFails = FALSE
    /\ now = StartTime
    /\ lastUpdates = [p \in SetPaths |-> 0]
    /\ probe = NoProbe
    /\ removed = NoRemoval
    /\ flat = FlatBoot /\ stores = <<>> /\ walk = NoWalk
    /\ timeout = 0 /\ lastUpdate = 0 /\ heap = HeapBoot

ReadNext ==
  \/ \E c \in CallIds, in \in ReadInputs : StartSet(c, in.path, in.value)
  \/ \E c \in CallIds : Resume(c)
  \/ \E path \in ReadPaths : GetCall(path)
  \/ \E in \in ReadSubs : Subscribe(in.path, in.throws)

ReadSpec == ReadInit /\ [][ReadNext]_vars

\* C22: a step in which get is called or a subscription is registered
\* leaves the tree as it was (no node is created), invokes no stage of any
\* call and leaves the middleware list as it was.
C22_ReadsLeaveStoreAlone ==
  [][(probe' # probe \/ Len(subscribers') > Len(subscribers)) =>
       /\ state' = state
       /\ arrays' = arrays /\ middleware' = middleware
       /\ \A c \in CallIds : calls'[c].ran = calls[c].ran]_vars

\* a path whose first segment is missing has been read, with stages
\* installed and a subscription registered: the result is undefined and the
\* tree is the tree that was read
C22_Witness ==
  /\ probe.made
  /\ Len(Parts(probe.path)) > 1
  /\ <<Head(Parts(probe.path))>> \notin DOMAIN probe.tree
  /\ probe.result = Undef
  /\ state = probe.tree
  /\ Len(subscribers) > 0
  /\ arrays[middleware] # <<>>

\* The store whose components subscribe and unsubscribe while writes are
\* made.
UnsubInputs == { [path |-> PAB, value |-> Num(1)] }
UnsubNext ==
  \/ \E c \in CallIds, in \in UnsubInputs : StartSet(c, in.path, in.value)
  \/ \E c \in CallIds : Resume(c)
  \/ \E in \in ReadSubs : Subscribe(in.path, in.throws)
  \/ \E id \in 1 .. MaxSubs : Unsubscribe(id)

UnsubSpec == ReadInit /\ [][UnsubNext]_vars

\* C23: the function returned by subscribe removes the registration that
\* produced it and no other: a step changes a registration only by removing
\* that one, a removed registration stays removed (a second call changes
\* nothing), and a commit invokes exactly the registrations that match its
\* path and were not removed before it, each once.
C23_UnsubscribeRemovesItsOwn ==
  /\ [][\A i \in 1 .. Len(subscribers) :
          subscribers'[i] # subscribers[i] =>
            /\ subscribers[i].live
            /\ subscribers'[i] = [subscribers[i] EXCEPT !.live = FALSE]
            /\ \A j \in 1 .. Len(subscribers) : j # i => subscribers'[j] = subscribers[j]]_vars
  /\ [](\A c \in CallIds : Committed(c) =>
          \A i \in 1 .. Len(calls[c].subs) :
            LET s == calls[c].subs[i]
            IN Len(SelectSeq(calls[c].notes, LAMBDA n : n.sub = s.id))
                 = IF s.live /\ HandlerFires(s.path, calls[c].path) THEN 1 ELSE 0)

\* two registrations on one path, the first removed: a later commit on that
\* path invoked the second and not the first
C23_Witness ==
  \E c \in CallIds :
    /\ Committed(c)
    /\ Len(calls[c].subs) = 2
    /\ calls[c].subs[1].path = calls[c].subs[2].path
    /\ HandlerFires(calls[c].subs[1].path, calls[c].path)
    /\ ~calls[c].subs[1].live /\ calls[c].subs[2].live
    /\ ~Notified(c, 1) /\ Notified(c, 2)

\* The store that is initialized while in use: stages have been added and
\* values written before initTreeState is called, with or without a list.
ResetStates == {EmptyObj, ObjB}
ResetLists == {<<"validate">>, <<>>, Omitted}
ResetNext ==
  \/ \E initialState \in ResetStates, list \in ResetLists : InitTreeState(initialState, list)
  \/ \E m \in ListStages : AddMiddleware(m)
  \/ \E c \in CallIds, in \in ListInputs : StartSet(c, in.path, in.value)
  \/ \E c \in CallIds : Resume(c)

ResetSpec == Init /\ [][ResetNext]_vars

\* C24: a call of initTreeState with an initial tree and (or without) a
\* middleware list leaves the root equal to the given tree and the pipeline
\* equal to the given list, the empty list when none is given: nothing of
\* the earlier tree and none of the earlier stages survives.
C24_InitReplacesWholesale ==
  [][\A initialState \in ResetStates, list \in ResetLists :
       InitTreeState(initialState, list) =>
         /\ state' = initialState
         /\ arrays'[middleware'] = IF list = Omitted THEN <<>> ELSE list]_vars

\* ------------------------------------------------------------ flat store
\* { ...st, ...partial }
Spread(st, partial) ==
  [k \in DOMAIN st \cup DOMAIN partial |-> IF k \in DOMAIN partial THEN partial[k] ELSE st[k]]

\* the arguments of the setState calls
FlatPartials ==
  { [count |-> 1], [count |-> 2], [name |-> 1], [count |-> 1, name |-> 2] }
FlatApprove(st) == [veto |-> FALSE, threw |-> FALSE, val |-> st]
FlatFalse(st) == [veto |-> TRUE, threw |-> FALSE, val |-> st]
\* the call of the middleware throws
FlatThrown(st) == [veto |-> FALSE, threw |-> TRUE, val |-> st]
CountOf(st) == IF "count" \in DOMAIN st THEN st.count ELSE 0

\* mw(modifiedState, state) for the middlewares given to addFlatMiddleware:
\* the logger of the playground, a guard that refuses a count lower than the
\* one before, a stage that replaces the merged state by one with a mark,
\* and a check of the name, `next.name.length`, which throws a TypeError
\* when the state has no name
FlatStage(mw, nextState, prevState) ==
  CASE mw = "log" -> FlatApprove(nextState)
    [] mw = "check" -> IF "name" \in DOMAIN nextState THEN FlatApprove(nextState)
                       ELSE FlatThrown(nextState)
    [] mw = "guard" -> IF CountOf(nextState) < CountOf(prevState)
                       THEN FlatFalse(nextState) ELSE FlatApprove(nextState)
    [] mw = "mark" -> FlatApprove(Spread(nextState, [mark |-> 1]))

\* the loop of setState over the middlewares in list: the stages invoked,
\* their arguments and results, whether one returned false, whether one
\* threw (nothing in the loop catches it), and the last candidate
RECURSIVE FlatRun(_, _, _)
FlatRun(list, modifiedState, prevState) ==
  IF list = <<>>
  THEN [ran |-> <<>>, args |-> <<>>, results |-> <<>>, veto |-> FALSE, threw |-> FALSE,
        out |-> modifiedState]
  ELSE LET result == FlatStage(Head(list), modifiedState, prevState)
           arg == [next |-> modifiedState, prev |-> prevState]
       IN IF result.veto \/ result.threw
          THEN [ran |-> <<Head(list)>>, args |-> <<arg>>, results |-> <<result>>,
                veto |-> result.veto, threw |-> result.threw, out |-> modifiedState]
          ELSE LET rest == FlatRun(Tail(list), result.val, prevState)
               IN [ran |-> <<Head(list)>> \o rest.ran, args |-> <<arg>> \o rest.args,
                   results |-> <<result>> \o rest.results,
                   veto |-> rest.veto, threw |-> rest.threw, out |-> rest.out]

\* faulty variant: the merge is installed before the middlewares are asked
FlatAfterVetoMerged(prevState, modifiedState) == modifiedState

\* the state that setState leaves when a middleware returned false, or
\* threw
FlatAfterVeto(prevState, modifiedState) == prevState

\* faulty variant: the listeners are told only when the state differs
FlatNotifiesOnChange(prevState, nextState) == prevState # nextState

\* listeners.forEach((l) => l()) has no condition
FlatNotifies(prevState, nextState) == TRUE

\* setState(partial)
SetState(partial) ==
  /\ flat.sets < MaxCalls
  /\ LET run == FlatRun(flat.middlewares, Spread(flat.state, partial), flat.state)
         left == run.veto \/ run.threw
         post == IF left THEN FlatAfterVeto(flat.state, run.out) ELSE run.out
         notify == ~left /\ FlatNotifies(flat.state, post)
         told == {i \in 1 .. Len(flat.listeners) : notify /\ flat.listeners[i].live}
     IN flat' = [flat EXCEPT
          !.state = post,
          !.listeners = [i \in 1 .. Len(flat.listeners) |->
             IF i \in told
             THEN [flat.listeners[i] EXCEPT !.hits = @ + 1]
             ELSE flat.listeners[i]],
          !.commits = IF left THEN @ ELSE @ + 1,
          !.sets = @ + 1,
          !.last = [made |-> TRUE, partial |-> partial, pre |-> flat.state, post |-> post,
                    list |-> flat.middlewares, ran |-> run.ran, args |-> run.args,
                    results |-> run.results, veto |-> run.veto, threw |-> run.threw,
                    there |-> {i \in 1 .. Len(flat.listeners) : flat.listeners[i].live},
                    notified |-> told,
                    found |-> IF told = {} THEN NoKeys ELSE post]]
  /\ UNCHANGED <<state, arrays, middleware, subscribers, calls, microtasks, timeouts, sink,
                 sinkFails, now, lastUpdates, probe, removed, stores, walk,
                 timeout, lastUpdate, heap>>

\* the subscribe function that useBonsai hands to useSyncExternalStore:
\* listeners.add(cb); since is the number of commits before it and hits
\* the number of times cb was called
FlatSubscribe ==
  /\ Len(flat.listeners) < MaxSubs
  /\ flat' = [flat EXCEPT !.listeners =
        Append(@, [live |-> TRUE, hits |-> 0, since |-> flat.commits])]
  /\ UNCHANGED <<state, arrays, middleware, subscribers, calls, microtasks, timeouts, sink,
                 sinkFails, now, lastUpdates, probe, removed, stores, walk,
                 timeout, lastUpdate, heap>>

\* the function it returns: listeners.delete(cb)
FlatUnsubscribe(id) ==
  /\ id <= Len(flat.listeners)
  /\ flat.listeners[id].live
  /\ flat' = [flat EXCEPT !.listeners[id].live = FALSE]
  /\ UNCHANGED <<state, arrays, middleware, subscribers, calls, microtasks, timeouts, sink,
                 sinkFails, now, lastUpdates, probe, removed, stores, walk,
                 timeout, lastUpdate, heap>>

\* addFlatMiddleware(middleware)
AddFlatMiddleware(mw) ==
  /\ Len(flat.middlewares) < MaxStages
  /\ flat' = [flat EXCEPT !.middlewares = Append(@, mw)]
  /\ UNCHANGED <<state, arrays, middleware, subscribers, calls, microtasks, timeouts, sink,
                 sinkFails, now, lastUpdates, probe, removed, stores, walk,
                 timeout, lastUpdate, heap>>

\* The flat store of a started application: its middlewares have been
\* added, and components mount, unmount and write.
FlatPipelines == { <<>>, <<"log">>, <<"mark", "guard">> }
FlatInit ==
  \E list \in FlatPipelines :
    /\ state = EmptyObj
    /\ arrays = << <<>> >>
    /\ middleware = 1
    /\ subscribers = <<>>
    /\ calls = [c \in CallIds |-> IdleCall]
    /\ microtasks = <<>>
    /\ timeouts = [p \in SetPaths |-> 0]
    /\ sink = Undef
    /\ sinkFails = FALSE
    /\ now = StartTime
    /\ lastUpdates = [p \in SetPaths |-> 0]
    /\ probe = NoProbe
    /\ removed = NoRemoval
    /\ flat = [FlatBoot EXCEPT !.middlewares = list] /\ stores = <<>> /\ walk = NoWalk
    /\ timeout = 0 /\ lastUpdate = 0 /\ heap = HeapBoot

FlatNext ==
  \/ \E partial \in FlatPartials : SetState(partial)
  \/ FlatSubscribe
  \/ \E id \in 1 .. MaxSubs : FlatUnsubscribe(id)

FlatSpec == FlatInit /\ [][FlatNext]_vars

\* C25: setState runs the middlewares in order, the first with the merge of
\* the partial onto the state (keys absent from the partial keep their
\* values), each later one with the result of the stage before, all with
\* the state before the merge; when none returns false the last result is
\* installed (the merge itself when every stage approves it as it is), and
\* when one returns false no later stage runs, the state is the state
\* before the call and no listener is invoked.
C25_FlatMergeOrVeto ==
  LET r == flat.last
      merged == Spread(r.pre, r.partial)
  IN r.made =>
       /\ IsPrefixSeq(r.ran, r.list)
       /\ \A k \in DOMAIN r.pre \ DOMAIN r.partial : merged[k] = r.pre[k]
       /\ \A k \in DOMAIN r.partial : merged[k] = r.partial[k]
       /\ \A i \in 1 .. Len(r.args) :
            /\ r.args[i].prev = r.pre
            /\ r.args[i].next = IF i = 1 THEN merged ELSE r.results[i - 1].val
       /\ r.veto <=> (\E i \in 1 .. Len(r.results) : r.results[i].veto)
       /\ r.veto => /\ r.results[Len(r.results)].veto
                    /\ r.post = r.pre /\ flat.state = r.pre
                    /\ r.notified = {}
       /\ ~r.veto => /\ r.ran = r.list
                     /\ r.post = IF r.ran = <<>> THEN merged ELSE r.results[Len(r.ran)].val
                     /\ flat.state = r.post
                     /\ (\A i \in 1 .. Len(r.ran) : r.ran[i] # "mark") => r.post = merged

\* a call was vetoed by the second stage after the first had replaced the
\* merge, with a listener registered and a state to lose: the state is the
\* one before the call and the listener was not invoked for it
C25_Witness ==
  /\ flat.last.made /\ flat.last.veto
  /\ flat.last.ran = <<"mark", "guard">>
  /\ flat.last.pre # NoKeys
  /\ Spread(flat.last.pre, flat.last.partial) # flat.last.pre
  /\ flat.state = flat.last.pre
  /\ flat.last.there # {}
  /\ flat.last.notified = {}

\* C26: every committed setState invokes every listener registered at the
\* time exactly once, whatever changed, after the state is installed: a
\* listener has been invoked once for each commit since it was added, and
\* the listeners of the last commit found the state it installed.
C26_EveryCommitNotifiesAll ==
  /\ flat.last.made /\ ~flat.last.veto =>
       /\ flat.last.notified = flat.last.there
       /\ flat.last.notified # {} => flat.last.found = flat.state
  /\ \A i \in 1 .. Len(flat.listeners) :
       flat.listeners[i].live =>
         flat.listeners[i].hits = flat.commits - flat.listeners[i].since

\* two commits, the second of which changed nothing: the listener that was
\* there from the start was invoked twice, the one added in between once
C26_Witness ==
  /\ flat.commits = 2
  /\ flat.last.pre = flat.last.post
  /\ Len(flat.listeners) = 2
  /\ flat.listeners[1].live /\ flat.listeners[1].hits = 2
  /\ flat.listeners[2].live /\ flat.listeners[2].hits = 1

\* ------------------------------------------------- createBonsaiStore
\* createBonsaiStore(): a new state {} and a new listener set, held by the
\* closures of the store returned; sets counts its set calls
CreateBonsaiStore ==
  /\ Len(stores) < MaxStores
  /\ stores' = Append(stores, [state |-> NoKeys, listeners |-> <<>>, sets |-> 0])
  /\ UNCHANGED <<state, arrays, middleware, subscribers, calls, microtasks, timeouts, sink,
                 sinkFails, now, lastUpdates, probe, removed, flat, walk,
                 timeout, lastUpdate, heap>>

\* the set calls made on all stores so far
RECURSIVE SetsMade(_)
SetsMade(ss) == IF ss = <<>> THEN 0 ELSE Head(ss).sets + SetsMade(Tail(ss))

\* the listeners added to all stores so far
RECURSIVE ListenersMade(_)
ListenersMade(ss) == IF ss = <<>> THEN 0 ELSE Len(Head(ss).listeners) + ListenersMade(Tail(ss))

\* listeners.forEach((l) => l()) of one store
StoreNotify(ls) == [i \in 1 .. Len(ls) |-> IF ls[i].live THEN [ls[i] EXCEPT !.hits = @ + 1] ELSE ls[i]]

\* faulty variant: the state and the listeners are module variables, as in
\* the flat store, and every store refers to them
StoreSetShared(s, partial) ==
  /\ s <= Len(stores)
  /\ SetsMade(stores) < MaxCalls
  /\ stores' = [t \in 1 .. Len(stores) |->
        [state |-> Spread(stores[s].state, partial),
         listeners |-> StoreNotify(stores[t].listeners),
         sets |-> IF t = s THEN stores[t].sets + 1 ELSE stores[t].sets]]
  /\ UNCHANGED <<state, arrays, middleware, subscribers, calls, microtasks, timeouts, sink,
                 sinkFails, now, lastUpdates, probe, removed, flat, walk,
                 timeout, lastUpdate, heap>>

\* store.set(partial) on store s: setState of its closure
StoreSet(s, partial) ==
  /\ s <= Len(stores)
  /\ SetsMade(stores) < MaxCalls
  /\ stores' = [stores EXCEPT ![s] =
        [state |-> Spread(stores[s].state, partial),
         listeners |-> StoreNotify(stores[s].listeners),
         sets |-> stores[s].sets + 1]]
  /\ UNCHANGED <<state, arrays, middleware, subscribers, calls, microtasks, timeouts, sink,
                 sinkFails, now, lastUpdates, probe, removed, flat, walk,
                 timeout, lastUpdate, heap>>

\* the subscribe function that store.use hands to useSyncExternalStore
StoreSubscribe(s) ==
  /\ s <= Len(stores)
  /\ ListenersMade(stores) < MaxSubs
  /\ stores' = [stores EXCEPT ![s].listeners = Append(@, [live |-> TRUE, hits |-> 0])]
  /\ UNCHANGED <<state, arrays, middleware, subscribers, calls, microtasks, timeouts, sink,
                 sinkFails, now, lastUpdates, probe, removed, flat, walk,
                 timeout, lastUpdate, heap>>

\* the function it returns: listeners.delete(cb)
StoreUnsubscribe(s, id) ==
  /\ s <= Len(stores)
  /\ id <= Len(stores[s].listeners)
  /\ stores[s].listeners[id].live
  /\ stores' = [stores EXCEPT ![s].listeners[id].live = FALSE]
  /\ UNCHANGED <<state, arrays, middleware, subscribers, calls, microtasks, timeouts, sink,
                 sinkFails, now, lastUpdates, probe, removed, flat, walk,
                 timeout, lastUpdate, heap>>

StorePartials == { [count |-> 1], [count |-> 2], [name |-> 1] }
StoreNext ==
  \/ CreateBonsaiStore
  \/ \E s \in 1 .. MaxStores, partial \in StorePartials : StoreSet(s, partial)
  \/ \E s \in 1 .. MaxStores : StoreSubscribe(s)
  \/ \E s \in 1 .. MaxStores, id \in 1 .. MaxSubs : StoreUnsubscribe(s, id)

StoreSpec == Init /\ [][StoreNext]_vars

\* C27: two stores made by createBonsaiStore do not observe each other: a
\* step that is a set call on one store leaves every other store as it was
\* (its state, which is what its get returns, and the number of times each
\* of its listeners was invoked), the flat store of the module included.
C27_StoresAreIsolated ==
  [][\A s \in 1 .. Len(stores) :
       stores'[s].sets # stores[s].sets =>
         /\ \A t \in 1 .. Len(stores) : t # s => stores'[t] = stores[t]
         /\ flat' = flat]_vars

\* two stores, each with a listener, hold different states after one set
\* call on each, and each listener was invoked once
C27_Witness ==
  /\ Len(stores) = 2
  /\ stores[1].sets = 1 /\ stores[2].sets = 1
  /\ stores[1].state # stores[2].state
  /\ \E i \in 1 .. Len(stores[1].listeners) : stores[1].listeners[i].hits = 1
  /\ \E i \in 1 .. Len(stores[2].listeners) :
       stores[2].listeners[i].live /\ stores[2].listeners[i].hits = 1

\* The tree stores made by createStore: the number of stores made so far is
\* the number of arrays after the one of the module at load.
StoresCreated == Len(arrays) - 1
CreateNext ==
  \/ \E initialState \in ResetStates, given \in ResetLists : CreateStore(initialState, given)
  \/ \E in \in ReadSubs : Subscribe(in.path, in.throws)
  \/ \E c \in CallIds, in \in UnsubInputs : StartSet(c, in.path, in.value)
  \/ \E c \in CallIds : Resume(c)

CreateSpec == Init /\ [][CreateNext]_vars

\* C28: two stores made by createStore are independent: the step that
\* creates a later store leaves what the get of an earlier store returns
\* (its root), the stages its set runs (its middleware list) and the
\* callbacks its commits invoke (its subscribers) as they were.
C28_TreeStoresAreIndependent ==
  [][(StoresCreated >= 1 /\ Len(arrays') > Len(arrays)) =>
       /\ state' = state
       /\ arrays'[middleware] = arrays[middleware]
       /\ subscribers' = subscribers]_vars

\* neither path is the other or an ancestor of it
Disjoint(p, q) == ~SegPrefix(p, q) /\ ~SegPrefix(q, p)

\* C29: overlapping set calls are linearized: a call whose stages ran
\* commits only when the previous value they were given is still the value
\* at its path, and its commit leaves the value at every disjoint path of
\* another call as it is.
C29_NoStalePreviousValue ==
  \A c \in CallIds : (Committed(c) /\ calls[c].ran # <<>>) =>
    /\ calls[c].prev = calls[c].atCommit
    /\ \A d \in CallIds :
         (calls[d].pc # "idle" /\ Disjoint(calls[c].path, calls[d].path)) =>
           Get(calls[c].post, calls[d].path) = Get(calls[c].pre, calls[d].path)

\* ------------------------------------------------------------ getAllPaths
\* `${prefix}/${key}`, or key when the prefix is the empty string
FullPath(prefix, key) == IF prefix # <<>> THEN prefix \o <<"/">> \o key ELSE key
\* Object.keys(obj)
Keys(obj) == {p[1] : p \in {q \in DOMAIN obj : Len(q) = 1}}

\* getAllPaths(obj, prefix): the elements of the array returned (their order
\* is that of Object.keys, which the values here do not carry)
RECURSIVE GetAllPaths(_, _)
GetAllPaths(obj, prefix) ==
  IF Kind(obj) \in {"null", "undef"} THEN {}
  ELSE IF Kind(obj) # "map" THEN {prefix}
  ELSE UNION { LET fullPath == FullPath(prefix, key)
                   childPaths == GetAllPaths(Subtree(obj, <<key>>), fullPath)
               IN IF childPaths # {} THEN childPaths ELSE {fullPath}
               : key \in Keys(obj) }

\* The values walked: objects with the keys a and b, nested to MaxDepth
\* along a, whose leaves are a number, a string, null, undefined or the
\* empty object.
NoProperty == Leaf("none", 0)
WalkLeaves == {Num(1), Str(4), NullV, Undef}
\* the object with property a = x and property b = y (NoProperty: without it)
MakeObject(x, y) ==
  LET withA == IF x = NoProperty THEN EmptyObj ELSE Graft(EmptyObj, <<KeyA>>, x)
  IN IF y = NoProperty THEN withA ELSE Graft(withA, <<KeyB>>, y)
RECURSIVE Trees(_)
Trees(depth) ==
  IF depth = 0 THEN WalkLeaves
  ELSE WalkLeaves \cup {MakeObject(x, y) : x \in Trees(depth - 1) \cup {NoProperty},
                                           y \in WalkLeaves \cup {NoProperty}}
WalkInputs == {t \in Trees(MaxDepth) : Kind(t) \in {"map", "num", "str"}}

\* a call getAllPaths(obj) made on its own
GetAllPathsCall(obj) ==
  /\ walk' = [made |-> TRUE, obj |-> obj, paths |-> GetAllPaths(obj, <<>>)]
  /\ UNCHANGED <<state, arrays, middleware, subscribers, calls, microtasks, timeouts, sink,
                 sinkFails, now, lastUpdates, probe, removed, flat, stores,
                 timeout, lastUpdate, heap>>

WalkNext == \E obj \in WalkInputs : GetAllPathsCall(obj)

WalkSpec == Init /\ [][WalkNext]_vars

\* the path string of a key path: its keys joined by "/"
RECURSIVE JoinSlash(_)
JoinSlash(keys) ==
  IF keys = <<>> THEN <<>>
  ELSE IF Len(keys) = 1 THEN keys[1]
  ELSE keys[1] \o <<"/">> \o JoinSlash(Tail(keys))

\* C30: getAllPaths(value) returns the path of every null or undefined
\* leaf, of every scalar leaf, and of every mapping below the root (the
\* intermediate ones as well as the terminal ones), and nothing else.
C30_AllPathsListed ==
  walk.made =>
    walk.paths = {JoinSlash(p) : p \in {q \in DOMAIN walk.obj :
                                          q # <<>> \/ Kind(walk.obj) # "map"}}

\* ------------------------------------------ the stages of middleware.ts
\* The store of the playground (main.tsx): its writes go through the
\* debounce stage made by createDebounceMiddleware of middleware.ts, are
\* logged and persisted.
SharedDebouncePipelines == { <<"debounceShared", "log", "persist">> }
SharedDebounceInit ==
  \E list \in SharedDebouncePipelines, subs \in SubConfigs :
    /\ state = EmptyObj
    /\ arrays = << <<>>, list >>
    /\ middleware = 2
    /\ subscribers = subs
    /\ calls = [c \in CallIds |-> IdleCall]
    /\ microtasks = <<>>
    /\ timeouts = [p \in SetPaths |-> 0]
    /\ sink = Undef
    /\ sinkFails = FALSE
    /\ now = StartTime
    /\ lastUpdates = [p \in SetPaths |-> 0]
    /\ probe = NoProbe
    /\ removed = NoRemoval
    /\ flat = FlatBoot /\ stores = <<>> /\ walk = NoWalk
    /\ timeout = 0 /\ lastUpdate = 0 /\ heap = HeapBoot

SharedDebounceNext ==
  \/ \E c \in CallIds, in \in DebounceInputs : StartSet(c, in.path, in.value)
  \/ \E c \in CallIds : Resume(c)
  \/ TimeoutFire

SharedDebounceSpec == SharedDebounceInit /\ [][SharedDebounceNext]_vars

\* C31: the debounce stage keeps its pending timer per path: the timer of a
\* call to path P is cleared only by a later call to P, never by a call to
\* another path Q (so that both the write to P and the write to Q commit).
C31_DebounceIsPerPath ==
  \A c, d \in CallIds : calls[d].cleared = c => calls[d].path = calls[c].path

\* The store of the rate limiting example (middleware-usage.ts): its writes
\* go through the throttle stage made by createThrottleMiddleware(1) of
\* middleware.ts and are logged.
SharedThrottlePipelines == { <<"throttleShared", "log">> }
SharedThrottleInputs ==
  { [path |-> PAB, value |-> Num(1)],
    [path |-> PAA, value |-> Num(1)] }
SharedThrottleInit ==
  \E list \in SharedThrottlePipelines, subs \in SubConfigs :
    /\ state = EmptyObj
    /\ arrays = << <<>>, list >>
    /\ middleware = 2
    /\ subscribers = subs
    /\ calls = [c \in CallIds |-> IdleCall]
    /\ microtasks = <<>>
    /\ timeouts = [p \in SetPaths |-> 0]
    /\ sink = Undef
    /\ sinkFails = FALSE
    /\ now = StartTime
    /\ lastUpdates = [p \in SetPaths |-> 0]
    /\ probe = NoProbe
    /\ removed = NoRemoval
    /\ flat = FlatBoot /\ stores = <<>> /\ walk = NoWalk
    /\ timeout = 0 /\ lastUpdate = 0 /\ heap = HeapBoot

SharedThrottleNext ==
  \/ \E c \in CallIds, in \in SharedThrottleInputs : StartSet(c, in.path, in.value)
  \/ \E c \in CallIds : Resume(c)
  \/ Tick

SharedThrottleSpec == SharedThrottleInit /\ [][SharedThrottleNext]_vars

\* the call went through a rate-limit stage, the first of its list
RateLimited(c) ==
  calls[c].ran # <<>> /\ calls[c].ran[1] \in {"throttle", "throttleShared"}

\* C32: the rate-limit stage refuses a call (hands on the previous value)
\* exactly when an accepted call to the same path was made less than the
\* interval before it; so the first call to a path is accepted, a refused
\* call does not extend the window, and an accepted call to one path never
\* makes a call to another path refused.
C32_RateLimitIsPerPath ==
  \A c \in CallIds : RateLimited(c) =>
    /\ calls[c].throttled <=>
         \E d \in CallIds :
           /\ d < c /\ RateLimited(d) /\ ~calls[d].throttled
           /\ calls[d].path = calls[c].path
           /\ calls[c].issued - calls[d].issued < Interval
    /\ Len(calls[c].results) > 0 =>
         calls[c].results[1] =
           Settled(IF calls[c].throttled THEN calls[c].prev ELSE calls[c].value)

\* C33: with a fixed list of stages that return at once, commits follow the
\* order of the calls: when a later call commits, every earlier call has
\* ended, the tree it updates is the tree the committed call before it left
\* (so the subscribers of that call were notified first), and the value at
\* its path after its commit is its own final candidate.
C33_CommitOrderIsIssueOrder ==
  \A c, d \in CallIds : (c < d /\ Committed(d)) =>
    /\ Done(c)
    /\ (Committed(c) /\ ~\E e \in CallIds : c < e /\ e < d /\ Committed(e))
         => calls[d].pre = calls[c].post
    /\ Get(calls[d].post, calls[d].path) = calls[d].next

\* two calls to one path with different values, the second made while the
\* first was suspended: both are committed, both notified a subscriber, and
\* the value at the path is the one of the second
C33_Witness ==
  \E c, d \in CallIds :
    /\ c < d /\ Committed(c) /\ Committed(d)
    /\ calls[c].path = calls[d].path
    /\ calls[c].value # calls[d].value
    /\ calls[d].prev # calls[c].value
    /\ calls[c].notes # <<>> /\ calls[d].notes # <<>>
    /\ Len(calls[d].ran) = 2
    /\ Get(state, calls[d].path) = calls[d].value

\* the stages in a list
Stages(list) == {list[i] : i \in 1 .. Len(list)}

\* C34: a change of the list while a set call is suspended in a stage never
\* makes the call skip a stage that is still registered: at the step in
\* which a call commits, every stage that was in the list when the call
\* started and is still in it has run for that call.
C34_NoRegisteredStageSkipped ==
  [][\A c \in CallIds :
       (Committed(c)' /\ ~Committed(c)) =>
         \A m \in Stages(calls'[c].list) \cap Stages(arrays'[calls'[c].arr]) :
           m \in Stages(calls'[c].ran)]_vars

\* C35: subscription matching does not depend on how a path is spelled: a
\* committed set invokes every subscription whose path has the segments of
\* the path of the call or of an ancestor of it, however either is written
\* (a fan-out cut short by a throwing callback is left to C37).
C35_MatchingIgnoresSpelling ==
  \A c \in CallIds : (Committed(c) /\ ~calls[c].threw) =>
    \A i \in 1 .. Len(calls[c].subs) :
      (calls[c].subs[i].live /\ SegPrefix(calls[c].subs[i].path, calls[c].path))
        => Notified(c, calls[c].subs[i].id)

\* ------------------------------------------------ the tree by reference
\* obj[key] = slot
Put(obj, key, slot) ==
  [k \in DOMAIN obj \cup {key} |-> IF k = key THEN slot ELSE obj[k]]

\* The objects of a value handed to set, created in the order in which its
\* literal is evaluated (the properties before the object that holds
\* them): result [objs, slot], the slot referring to the value.
RECURSIVE Store(_, _)
RECURSIVE StoreProps(_, _, _, _)
Store(objs, val) ==
  IF Kind(val) # "map" THEN [objs |-> objs, slot |-> val[<<>>]]
  ELSE StoreProps(objs, val, Keys(val), NoProps)
StoreProps(objs, val, keys, acc) ==
  IF keys = {} THEN [objs |-> Append(objs, acc), slot |-> Ref(Len(objs) + 1)]
  ELSE LET key == CHOOSE k \in keys : TRUE
           r == Store(objs, Subtree(val, <<key>>))
       IN StoreProps(r.objs, val, keys \ {key}, Put(acc, key, r.slot))

\* the value that a slot holds: the tree below it
RECURSIVE Denote(_, _)
RECURSIVE DenoteProps(_, _, _, _)
Denote(objs, slot) ==
  IF slot.k # "ref" THEN Leaf(slot.k, slot.v)
  ELSE DenoteProps(objs, objs[slot.v], DOMAIN objs[slot.v], EmptyObj)
DenoteProps(objs, obj, keys, acc) ==
  IF keys = {} THEN acc
  ELSE LET key == CHOOSE k \in keys : TRUE
       IN DenoteProps(objs, obj, keys \ {key}, Graft(acc, <<key>>, Denote(objs, obj[key])))

\* current[part] on a slot
PropRef(objs, current, key) ==
  IF current.k = "ref" /\ key \in DOMAIN objs[current.v] THEN objs[current.v][key]
  ELSE IF current.k = "str" /\ key = LengthKey THEN Node("num", current.v)
  ELSE Node("undef", 0)

RECURSIVE WalkRef(_, _, _)
WalkRef(objs, current, parts) ==
  IF parts = <<>> THEN current
  ELSE IF current.k \in {"undef", "null"} THEN Node("undef", 0)
  ELSE WalkRef(objs, PropRef(objs, current, Head(parts)), Tail(parts))

\* get(path): the slot returned, a reference when the value is an object
GetSlot(h, path) == IF path = <<>> THEN h.root ELSE WalkRef(h.objs, h.root, Parts(path))

\* The update loop of set, on references: result [objs, slot, fault], slot
\* being what `current` was at the start (the loop assigns into the objects
\* it walks through and never replaces `current` itself).
RECURSIVE UpdateRefFrom(_, _, _, _)
UpdateRefFrom(objs, current, parts, val) ==
  IF current.k # "ref" THEN [objs |-> objs, slot |-> current, fault |-> TRUE]
  ELSE IF Len(parts) = 1
    THEN LET r == Store(objs, val)
         IN [objs |-> [r.objs EXCEPT ![current.v] = Put(@, Head(parts), r.slot)],
             slot |-> current, fault |-> FALSE]
  ELSE LET part == Head(parts)
           created == IF part \in DOMAIN objs[current.v] THEN objs
                      ELSE [Append(objs, NoProps) EXCEPT ![current.v] =
                              Put(@, part, Ref(Len(objs) + 1))]
           below == UpdateRefFrom(created, created[current.v][part], Tail(parts), val)
       IN [objs |-> below.objs, slot |-> current, fault |-> below.fault]

\* the "Update state" block of set, on references: [objs, root, fault]
UpdateRef(h, path, val) ==
  IF path = <<>>
  THEN LET r == Store(h.objs, val) IN [objs |-> r.objs, root |-> r.slot, fault |-> FALSE]
  ELSE LET parts == Parts(path)
           r == UpdateRefFrom(h.objs, h.root,
                              IF parts = <<>> THEN <<UndefinedKey>> ELSE parts, val)
       IN [objs |-> r.objs, root |-> r.slot, fault |-> r.fault]

\* set(path, value) with no middleware installed, on the tree by reference
SetRef(path, value) ==
  /\ arrays[middleware] = <<>>
  /\ heap.sets < MaxCalls
  /\ LET upd == UpdateRef(heap, path, value)
     IN heap' = [heap EXCEPT
          !.objs = upd.objs, !.root = upd.root, !.sets = @ + 1,
          !.last = [made |-> TRUE, path |-> path, fault |-> upd.fault,
                    pre |-> Denote(heap.objs, heap.root),
                    post |-> Denote(upd.objs, upd.root)]]
  /\ UNCHANGED <<state, arrays, middleware, subscribers, calls, microtasks, timeouts, sink,
                 sinkFails, now, lastUpdates, probe, removed, flat, stores, walk,
                 timeout, lastUpdate>>

\* get(path) on the tree by reference, the result kept by the caller
GetRef(path) ==
  /\ LET slot == GetSlot(heap, path)
     IN heap' = [heap EXCEPT
          !.held = [made |-> TRUE, path |-> path, slot |-> slot,
                    value |-> Denote(heap.objs, slot)],
          !.last = NoHeapSet]
  /\ UNCHANGED <<state, arrays, middleware, subscribers, calls, microtasks, timeouts, sink,
                 sinkFails, now, lastUpdates, probe, removed, flat, stores, walk,
                 timeout, lastUpdate>>

\* The store without middleware, by reference: a component reads a value
\* and keeps it while values are written.
HeapNext ==
  \/ \E in \in GetInputs : SetRef(in.path, in.value)
  \/ \E path \in GetPaths : GetRef(path)

HeapSpec == Init /\ [][HeapNext]_vars

\* C36: a commit is visible to a consumer that compares by identity: when
\* get(P) returned an object and a set then commits strictly below P and
\* changes the value at P, get(P) returns another object than before, and
\* the object returned before still has the value it had.
C36_CommitReplacesObjects ==
  (/\ heap.held.made /\ heap.held.slot.k = "ref"
   /\ heap.last.made /\ ~heap.last.fault
   /\ StrictSegPrefix(heap.held.path, heap.last.path)
   /\ Get(heap.last.pre, heap.held.path) # Get(heap.last.post, heap.held.path))
    => /\ GetSlot(heap, heap.held.path) # heap.held.slot
       /\ Denote(heap.objs, heap.held.slot) = heap.held.value

\* C37: a subscriber callback that throws during the fan-out of a commit is
\* contained: every other registration that matches the path of the call is
\* still invoked for that commit, and the call resolves to true.
C37_ThrowingSubscriberIsContained ==
  \A c \in CallIds : (Done(c) /\ calls[c].threw) =>
    /\ \A i \in 1 .. Len(calls[c].subs) :
         (calls[c].subs[i].live /\ HandlerFires(calls[c].subs[i].path, calls[c].path))
           => Notified(c, calls[c].subs[i].id)
    /\ calls[c].outcome = "true"

\* The store that is initialized again while components are subscribed and
\* writes are made.
ReinitLists == {<<"log">>, Omitted}
ReinitNext ==
  \/ \E initialState \in ResetStates, list \in ReinitLists : InitTreeState(initialState, list)
  \/ \E in \in ReadSubs : Subscribe(in.path, in.throws)
  \/ \E c \in CallIds, in \in UnsubInputs : StartSet(c, in.path, in.value)
  \/ \E c \in CallIds : Resume(c)

ReinitSpec == Init /\ [][ReinitNext]_vars

\* C38: a call of initTreeState leaves the registrations as they are and
\* invokes no callback (also when it replaces the root they observe), and
\* every commit, before or after it, invokes the registrations that match
\* its path and were made before the commit.
C38_ReinitKeepsSubscribers ==
  /\ [][(\E initialState \in ResetStates, list \in ReinitLists :
            InitTreeState(initialState, list))
          => /\ subscribers' = subscribers
             /\ \A c \in CallIds : calls'[c].notes = calls[c].notes]_vars
  /\ [](\A c \in CallIds : Committed(c) =>
          /\ IsPrefixSeq(calls[c].subs, subscribers)
          /\ \A i \in 1 .. Len(calls[c].subs) :
               HandlerFires(calls[c].subs[i].path, calls[c].path)
                 => Notified(c, calls[c].subs[i].id))

\* a registration was invoked by a commit made before the store was
\* initialized again with a new root and a new list, and by a commit made
\* after it
C38_Witness ==
  \E c, d \in CallIds :
    /\ Committed(c) /\ calls[c].arr = 1 /\ Notified(c, 1)
    /\ Committed(d) /\ calls[d].arr = 2 /\ Notified(d, 1)
    /\ calls[d].pre = ObjB

\* The flat store with a middleware that can throw: the logger and the check
\* of the name have been added.
FlatFaultPipelines == { <<"log", "check">>, <<"check", "mark">> }
FlatFaultInit ==
  \E list \in FlatFaultPipelines :
    /\ state = EmptyObj
    /\ arrays = << <<>> >>
    /\ middleware = 1
    /\ subscribers = <<>>
    /\ calls = [c \in CallIds |-> IdleCall]
    /\ microtasks = <<>>
    /\ timeouts = [p \in SetPaths |-> 0]
    /\ sink = Undef
    /\ sinkFails = FALSE
    /\ now = StartTime
    /\ lastUpdates = [p \in SetPaths |-> 0]
    /\ probe = NoProbe
    /\ removed = NoRemoval
    /\ flat = [FlatBoot EXCEPT !.middlewares = list] /\ stores = <<>> /\ walk = NoWalk
    /\ timeout = 0 /\ lastUpdate = 0 /\ heap = HeapBoot

FlatFaultSpec == FlatFaultInit /\ [][FlatNext]_vars

\* C39: in the flat store a middleware that throws is a veto: the state is
\* the state before the call, no listener is invoked, and no exception
\* leaves setState.
C39_FlatFaultIsVeto ==
  (flat.last.made /\ \E i \in 1 .. Len(flat.last.results) : flat.last.results[i].threw) =>
    /\ flat.state = flat.last.pre
    /\ flat.last.notified = {}
    /\ ~flat.last.threw

====
